---- MODULE Spec2Model ----
(***************************************************************************)
(* A model of crates/rethnet_evm/src/debug_trace.rs: the replay driver     *)
(* debug_trace_transaction and the EIP-3155 tracer TracerEip3155, an       *)
(* inspector whose callbacks are driven by the VM.  The VM (interpreter,   *)
(* journaled state, gas inspector) is an external collaborator; it is      *)
(* modelled here as the environment that issues the callbacks: call and    *)
(* call_end around the transaction's own frame, step and step_end around   *)
(* every opcode of the traced code, call/create and call_end/create_end    *)
(* around every frame such an opcode opens.                                *)
(***************************************************************************)
EXTENDS Integers, Sequences, FiniteSets, TLC

VARIABLES
  tracer,   \* the TracerEip3155 of the traced transaction
  frames,   \* the VM's stack of interpreter frames, innermost last
  journal,  \* journaled_state.journal: one list of entries per checkpoint
  state,    \* journaled_state.state: the storage slots of every account
  steps,    \* history: what the interpreter held at each step callback
  lastcb,   \* history: the callback issued last, the frame result the VM passed
            \* to it (call_end, create_end) and what it returned
  driver    \* debug_trace_transaction: its arguments, locals and position

vars == <<tracer, frames, journal, state, steps, lastcb, driver>>

(***************************************************************************)
(* Bounds of the model.                                                    *)
(***************************************************************************)
\* opcodes executed in one traced transaction
MaxSteps == 4
\* call depth past which a call or create gets no frame (CALL_STACK_LIMIT)
MaxDepth == 3
\* gas limit of the traced transaction
TxGasLimit == 10
\* length of the transaction list handed to the driver
MaxTxs == 3

(***************************************************************************)
(* Option values: None is the empty sequence, Some(x) the one-element one.  *)
(***************************************************************************)
None == <<>>
Some(x) == <<x>>
Last(s) == s[Len(s)]

(***************************************************************************)
(* Hex formatting.                                                         *)
(***************************************************************************)
HexDigit(d) ==
  CASE d = 0 -> "0" [] d = 1 -> "1" [] d = 2 -> "2" [] d = 3 -> "3"
    [] d = 4 -> "4" [] d = 5 -> "5" [] d = 6 -> "6" [] d = 7 -> "7"
    [] d = 8 -> "8" [] d = 9 -> "9" [] d = 10 -> "a" [] d = 11 -> "b"
    [] d = 12 -> "c" [] d = 13 -> "d" [] d = 14 -> "e" [] d = 15 -> "f"

\* format!("{:x}", n): minimal-width lowercase hex, "0" for zero
RECURSIVE LowerHex(_)
LowerHex(n) == IF n < 16 THEN HexDigit(n) ELSE LowerHex(n \div 16) \o HexDigit(n % 16)

RECURSIVE Repeat(_, _)
Repeat(s, n) == IF n <= 0 THEN "" ELSE s \o Repeat(s, n - 1)

\* format!("{word:#066x}") of a non-zero word: "0x", then zero padding to 66
PadHex066(word) == "0x" \o Repeat("0", 64 - Len(LowerHex(word))) \o LowerHex(word)

\* the formatter alone, which gives zero no padding
to_hex_word_fmt_only(word) ==
  IF word = 0 THEN "0x0" ELSE PadHex066(word)

to_hex_word(word) ==
  IF word = 0 THEN "0x" \o Repeat("0", 64) ELSE PadHex066(word)

\* hex::encode of a byte slice
RECURSIVE hex_encode(_)
hex_encode(bytes) ==
  IF bytes = <<>> THEN ""
  ELSE HexDigit(Head(bytes) \div 16) \o HexDigit(Head(bytes) % 16) \o hex_encode(Tail(bytes))

\* slice::chunks(32)
RECURSIVE chunks32(_)
chunks32(bytes) ==
  IF bytes = <<>> THEN <<>>
  ELSE IF Len(bytes) <= 32 THEN <<bytes>>
  ELSE <<SubSeq(bytes, 1, 32)>> \o chunks32(SubSeq(bytes, 33, Len(bytes)))

(***************************************************************************)
(* Hash maps: a function whose domain is the set of keys present.          *)
(***************************************************************************)
EmptyMap == <<>>
MapInsert(m, k, v) == [j \in (DOMAIN m) \cup {k} |-> IF j = k THEN v ELSE m[j]]
MapGetOrDefault(m, k, d) == IF k \in DOMAIN m THEN m[k] ELSE d

(***************************************************************************)
(* Opcodes and the mnemonic table.                                         *)
(***************************************************************************)
STOP == 0
UNDEFINED_0C == 12
MSTORE == 82
SLOAD == 84
SSTORE == 85
PUSH1 == 96
PUSH32 == 127
CREATE == 240
CALL == 241
STATICCALL == 250
REVERT == 253

\* opcode::OPCODE_JUMPMAP: Some(mnemonic), or None for an undefined byte
OPCODE_JUMPMAP(op) ==
  CASE op = STOP -> Some("STOP")
    [] op = MSTORE -> Some("MSTORE")
    [] op = SLOAD -> Some("SLOAD")
    [] op = SSTORE -> Some("SSTORE")
    [] op = PUSH1 -> Some("PUSH1")
    [] op = PUSH32 -> Some("PUSH32")
    [] op = CREATE -> Some("CREATE")
    [] op = CALL -> Some("CALL")
    [] op = STATICCALL -> Some("STATICCALL")
    [] op = REVERT -> Some("REVERT")
    [] OTHER -> None

(***************************************************************************)
(* revm's GasInspector, the gas accumulator the tracer forwards to.        *)
(***************************************************************************)
GasInspector_default == [gas_remaining |-> 0, last_gas_cost |-> 0]

GasInspector_initialize_interp(gi, interp) ==
  [gi EXCEPT !.gas_remaining = interp.gas_limit]

GasInspector_step(gi, interp) == gi

GasInspector_step_end(gi, interp) ==
  [gas_remaining |-> interp.gas,
   last_gas_cost |-> IF gi.gas_remaining > interp.gas
                     THEN gi.gas_remaining - interp.gas ELSE 0]

GasInspector_call_end(gi) == gi

GasInspector_create_end(gi) == gi

(***************************************************************************)
(* TracerEip3155.                                                          *)
(***************************************************************************)
B160_default == "0x0"

DebugTraceConfigs ==
  [disable_storage : BOOLEAN, disable_memory : BOOLEAN, disable_stack : BOOLEAN]

new(config) ==
  [config |-> config,
   logs |-> <<>>,
   gas_inspector |-> GasInspector_default,
   contract_address |-> B160_default,
   stack |-> <<>>,
   pc |-> 0,
   opcode |-> 0,
   gas_remaining |-> 0,
   memory |-> <<>>,
   mem_size |-> 0,
   skip |-> FALSE,
   storage |-> EmptyMap]

\* journaled_state.journal.last().and_then(|v| v.last())
last_entry(data) ==
  IF data.journal = <<>> THEN None
  ELSE IF Last(data.journal) = <<>> THEN None
  ELSE Some(Last(Last(data.journal)))

\* the SLOAD/SSTORE branch, but the contract's map is started afresh on every insert
record_log_storage_forgets(self, data) ==
  IF self.config.disable_storage THEN self.storage
  ELSE IF self.opcode \in {SLOAD, SSTORE}
          /\ last_entry(data) # None
          /\ last_entry(data)[1].type = "StorageChange"
       THEN LET e == last_entry(data)[1]
                value == data.state[e.address][e.key].present
            IN MapInsert(self.storage, self.contract_address,
                         MapInsert(EmptyMap, to_hex_word(e.key), to_hex_word(value)))
       ELSE self.storage

\* self.storage after the SLOAD/SSTORE branch of record_log
record_log_storage(self, data) ==
  IF self.config.disable_storage THEN self.storage
  ELSE IF self.opcode \in {SLOAD, SSTORE}
          /\ last_entry(data) # None
          /\ last_entry(data)[1].type = "StorageChange"
       THEN LET e == last_entry(data)[1]
                value == data.state[e.address][e.key].present
                contract_storage ==
                  MapGetOrDefault(self.storage, self.contract_address, EmptyMap)
            IN MapInsert(self.storage, self.contract_address,
                         MapInsert(contract_storage, to_hex_word(e.key), to_hex_word(value)))
       ELSE self.storage

\* the gas_cost of the record, but STATICCALL is treated as any other opcode
record_log_gas_cost_any_opcode(self) == self.gas_inspector.last_gas_cost

\* the gas_cost of the record: 0 for STATICCALL, else the accumulator's last cost
record_log_gas_cost(self) ==
  IF self.opcode = STATICCALL THEN 0 ELSE self.gas_inspector.last_gas_cost

\* the fallback name, but with the opcode in decimal
fallback_op_name_decimal(opcode) ==
  "opcode 0x$" \o ToString(opcode) \o " not defined"

\* format!("opcode 0x${:x} not defined", self.opcode)
fallback_op_name(opcode) ==
  "opcode 0x$" \o LowerHex(opcode) \o " not defined"

record_log(self, data) ==
  LET depth == data.depth
      stack == IF self.config.disable_stack THEN None
               ELSE Some([i \in 1..Len(self.stack) |-> to_hex_word(self.stack[i])])
      memory == IF self.config.disable_memory THEN None
                ELSE Some([i \in 1..Len(chunks32(self.memory)) |->
                             hex_encode(chunks32(self.memory)[i])])
      storage1 == record_log_storage(self, data)
      storage == IF self.config.disable_storage THEN None
                 ELSE Some(MapGetOrDefault(storage1, self.contract_address, EmptyMap))
      known == OPCODE_JUMPMAP(self.opcode) # None
      fallback == fallback_op_name(self.opcode)
      error == IF known THEN None ELSE Some(fallback)
      op_name == IF known THEN OPCODE_JUMPMAP(self.opcode)[1] ELSE fallback
      gas_cost == record_log_gas_cost(self)
      log_item == [pc |-> self.pc,
                   op |-> self.opcode,
                   gas |-> "0x" \o LowerHex(self.gas_remaining),
                   gas_cost |-> "0x" \o LowerHex(gas_cost),
                   stack |-> stack,
                   depth |-> depth,
                   mem_size |-> self.mem_size,
                   op_name |-> op_name,
                   error |-> error,
                   memory |-> memory,
                   storage |-> storage]
  IN [self EXCEPT !.storage = storage1, !.logs = Append(self.logs, log_item)]

\* The Inspector callbacks: each yields the tracer afterwards and the value returned.
initialize_interp(self, interp, data) ==
  [self |-> [self EXCEPT !.gas_inspector =
                           GasInspector_initialize_interp(self.gas_inspector, interp)],
   ret |-> <<"Continue">>]

\* step, but the memory size is refreshed only when memory is captured
step_mem_size_gated(self, interp, data) ==
  LET gi == GasInspector_step(self.gas_inspector, interp)
  IN [self |-> [self EXCEPT
                  !.contract_address = interp.address,
                  !.gas_inspector = gi,
                  !.gas_remaining = gi.gas_remaining,
                  !.stack = IF self.config.disable_stack THEN self.stack ELSE interp.stack,
                  !.memory = IF self.config.disable_memory THEN self.memory ELSE interp.memory,
                  !.mem_size = IF self.config.disable_memory THEN self.mem_size
                               ELSE Len(interp.memory),
                  !.opcode = interp.ins.op,
                  !.pc = interp.pc],
      ret |-> <<"Continue">>]

step(self, interp, data) ==
  LET gi == GasInspector_step(self.gas_inspector, interp)
  IN [self |-> [self EXCEPT
                  !.contract_address = interp.address,
                  !.gas_inspector = gi,
                  !.gas_remaining = gi.gas_remaining,
                  !.stack = IF self.config.disable_stack THEN self.stack ELSE interp.stack,
                  !.memory = IF self.config.disable_memory THEN self.memory ELSE interp.memory,
                  !.mem_size = Len(interp.memory),
                  !.opcode = interp.ins.op,
                  !.pc = interp.pc],
      ret |-> <<"Continue">>]

\* step_end, but a skip flag found set is left set
step_end_keep_skip(self, interp, data, eval) ==
  LET s1 == [self EXCEPT !.gas_inspector = GasInspector_step_end(self.gas_inspector, interp)]
  IN IF s1.skip
     THEN [self |-> s1, ret |-> <<"Continue">>]
     ELSE [self |-> record_log(s1, data), ret |-> <<"Continue">>]

step_end(self, interp, data, eval) ==
  LET s1 == [self EXCEPT !.gas_inspector = GasInspector_step_end(self.gas_inspector, interp)]
  IN IF s1.skip
     THEN [self |-> [s1 EXCEPT !.skip = FALSE], ret |-> <<"Continue">>]
     ELSE [self |-> record_log(s1, data), ret |-> <<"Continue">>]

\* call, but the record is made twice
call_records_twice(self, data, inputs) ==
  [self |-> record_log(record_log(self, data), data), ret |-> <<"Continue", 0, <<>> >>]

call(self, data, inputs) ==
  [self |-> record_log(self, data), ret |-> <<"Continue", 0, <<>> >>]

\* call_end, but the verdict returned is Continue instead of the frame's result
call_end_returns_continue(self, data, inputs, remaining_gas, ret, out) ==
  [self |-> [self EXCEPT !.gas_inspector = GasInspector_call_end(self.gas_inspector),
                         !.skip = TRUE],
   ret |-> <<"Continue", remaining_gas, out>>]

call_end(self, data, inputs, remaining_gas, ret, out) ==
  [self |-> [self EXCEPT !.gas_inspector = GasInspector_call_end(self.gas_inspector),
                         !.skip = TRUE],
   ret |-> <<ret, remaining_gas, out>>]

create(self, data, inputs) ==
  [self |-> record_log(self, data), ret |-> <<"Continue", None, 0, <<>> >>]

create_end(self, data, inputs, ret, address, remaining_gas, out) ==
  [self |-> [self EXCEPT !.gas_inspector = GasInspector_create_end(self.gas_inspector),
                         !.skip = TRUE],
   ret |-> <<ret, address, remaining_gas, out>>]

(***************************************************************************)
(* The VM: interpreter frames, gas, the journaled state.                   *)
(***************************************************************************)
Addresses == {"A", "B", "N"}
Keys == {1, 2}
Values == {0, 1}
\* the address the traced transaction calls
TxTo == "A"
\* the address a CREATE deploys to
CreatedAddress == "N"
\* the value every slot holds in the database before the transaction
DbValue(address, key) == 0

\* an instruction about to execute: the opcode and the operands it will use
NoIns == [op |-> -1, a |-> "", k |-> 0, v |-> 0, enter |-> FALSE]
Ins(op) == [NoIns EXCEPT !.op = op]
SimpleInstrs == {Ins(STOP), Ins(PUSH1), Ins(MSTORE), Ins(UNDEFINED_0C)}
StorageAccessInstrs ==
  {[Ins(SLOAD) EXCEPT !.k = k] : k \in Keys}
    \cup {[Ins(SSTORE) EXCEPT !.k = k, !.v = v] : k \in Keys, v \in Values}
\* enter = FALSE: the callee has no code to run (an account without code, a precompile)
CallInstrs(targets) ==
  {[Ins(CALL) EXCEPT !.a = a, !.enter = e] : a \in targets, e \in BOOLEAN}
StaticCallInstrs(targets) == {[Ins(STATICCALL) EXCEPT !.a = a, !.enter = TRUE] : a \in targets}
CreateInstrs == {[Ins(CREATE) EXCEPT !.a = CreatedAddress, !.enter = TRUE]}

\* the instructions the traced code is made of, in the two specifications
TraceInstrs ==
  SimpleInstrs \cup CallInstrs({"B"}) \cup StaticCallInstrs({"B"}) \cup CreateInstrs
StorageInstrs ==
  {Ins(STOP), Ins(REVERT)} \cup StorageAccessInstrs
    \cup {[Ins(CALL) EXCEPT !.a = a, !.enter = TRUE] : a \in {"A", "B"}}

\* the words pushed on the stack: zero, one, and values at the digit boundaries
Words == {0, 1, 10, 15, 16, 255, 4096, 2147483647}
WordInstrs ==
  {[Ins(PUSH32) EXCEPT !.v = w] : w \in Words}
    \cup {[Ins(SSTORE) EXCEPT !.k = 2, !.v = 1], Ins(STOP)}

IsCallOp(op) == op \in {CALL, STATICCALL}
IsCreateOp(op) == op = CREATE

\* the gas an opcode deducts before it does anything else
Cost(op) ==
  CASE op = PUSH1 -> 1
    [] op = PUSH32 -> 1
    [] op = MSTORE -> 2
    [] op = SLOAD -> 2
    [] op = SSTORE -> 3
    [] op = CALL -> 2
    [] op = STATICCALL -> 2
    [] op = CREATE -> 3
    [] OTHER -> 0

\* the gas a call or create hands to the new frame, of what is left after Cost
ForwardedGas(remaining) == remaining - (remaining \div 4)

\* the width of the program counter's advance
PcAdvance(op) == IF op = PUSH1 THEN 2 ELSE IF op = PUSH32 THEN 33 ELSE 1

OtherEntry == [type |-> "Other", address |-> "", key |-> 0, had_value |-> None]
StorageChange(address, key, had_value) ==
  [type |-> "StorageChange", address |-> address, key |-> key, had_value |-> had_value]

JournalPush(j, e) == [j EXCEPT ![Len(j)] = Append(@, e)]

\* JournaledState::sload: a cold slot is loaded and journaled, a warm one is not
sload(j, st, address, key) ==
  IF st[address][key].warm THEN [journal |-> j, state |-> st]
  ELSE [journal |-> JournalPush(j, StorageChange(address, key, None)),
        state |-> [st EXCEPT ![address][key] =
                     [present |-> DbValue(address, key), warm |-> TRUE]]]

\* JournaledState::sstore: loads the slot, and journals a change of its value only
sstore(j, st, address, key, new_value) ==
  LET l == sload(j, st, address, key)
      present == l.state[address][key].present
  IN IF present = new_value THEN l
     ELSE [journal |-> JournalPush(l.journal, StorageChange(address, key, Some(present))),
           state |-> [l.state EXCEPT ![address][key].present = new_value]]

RECURSIVE Flatten(_)
Flatten(ss) == IF ss = <<>> THEN <<>> ELSE Head(ss) \o Flatten(Tail(ss))

Reverse(s) == [i \in 1..Len(s) |-> s[Len(s) + 1 - i]]

RECURSIVE revert_entries(_, _)
revert_entries(st, entries) ==
  IF entries = <<>> THEN st
  ELSE LET e == Head(entries)
           st1 == IF e.type # "StorageChange" THEN st
                  ELSE IF e.had_value = None
                       THEN [st EXCEPT ![e.address][e.key] =
                               [present |-> DbValue(e.address, e.key), warm |-> FALSE]]
                       ELSE [st EXCEPT ![e.address][e.key].present = e.had_value[1]]
       IN revert_entries(st1, Tail(entries))

\* JournaledState::checkpoint_revert: undo, newest first, everything journaled since
\* the checkpoint and drop it from the journal
checkpoint_revert(j, st, checkpoint) ==
  [journal |-> SubSeq(j, 1, checkpoint),
   state |-> revert_entries(st, Reverse(Flatten(SubSeq(j, checkpoint + 1, Len(j)))))]

\* JournaledState::checkpoint followed by the transfer that opens every frame
checkpoint(j) == Append(j, <<OtherEntry>>)

NewFrame(address, gas, is_static, phase, result, cp) ==
  [address |-> address, pc |-> 0, gas |-> gas, gas_limit |-> gas, memory |-> <<>>,
   stack |-> <<>>, is_static |-> is_static, phase |-> phase, ins |-> NoIns,
   result |-> result, checkpoint |-> cp]

\* the 32 bytes an MSTORE writes
MStoreWord == [i \in 1..32 |-> IF i = 32 THEN 171 ELSE 0]

\* an opcode that opens no frame, executed: the interpreter, journal and state after it
\* and the interpreter's instruction result
Execute(f, j, st) ==
  LET op == f.ins.op
      same == [journal |-> j, state |-> st]
      halt(eval) == [interp |-> f, js |-> same, eval |-> eval]
      go(f1, js) == [interp |-> [f1 EXCEPT !.gas = f.gas - Cost(op),
                                            !.pc = f.pc + PcAdvance(op)],
                     js |-> js, eval |-> "Continue"]
  IN CASE op = STOP -> halt("Stop")
       [] op = REVERT -> halt("Revert")
       [] op = UNDEFINED_0C -> halt("OpcodeNotFound")
       [] f.gas < Cost(op) -> halt("OutOfGas")
       [] op = PUSH1 -> go([f EXCEPT !.stack = Append(@, 1)], same)
       [] op = PUSH32 -> go([f EXCEPT !.stack = Append(@, f.ins.v)], same)
       [] op = MSTORE -> go([f EXCEPT !.memory = @ \o MStoreWord], same)
       [] op = SLOAD -> go(f, sload(j, st, f.address, f.ins.k))
       [] op = SSTORE ->
            IF f.is_static THEN halt("StateChangeDuringStaticCall")
            ELSE go(f, sstore(j, st, f.address, f.ins.k, f.ins.v))
       [] op = CREATE -> halt("StateChangeDuringStaticCall")
       [] OTHER -> halt("OutOfGas")

\* whether a call or create opcode gets as far as the inspector's call/create
OpensFrame(f) ==
  /\ IsCallOp(f.ins.op) \/ (IsCreateOp(f.ins.op) /\ ~f.is_static)
  /\ f.gas >= Cost(f.ins.op)

ResultOf(eval) ==
  CASE eval = "Continue" -> ""
    [] eval = "Stop" -> "ok"
    [] eval = "Revert" -> "revert"
    [] OTHER -> "halt"

Top == frames[Len(frames)]
SetTop(f) == [frames EXCEPT ![Len(frames)] = f]
Data == [depth |-> Len(frames), journal |-> journal, state |-> state]

(***************************************************************************)
(* The callbacks, each with the VM's work that leads to it.                *)
(***************************************************************************)
InitializeInterp ==
  /\ frames # <<>> /\ Top.phase = "init"
  /\ LET r == initialize_interp(tracer, Top, Data)
     IN /\ tracer' = r.self
        /\ lastcb' = [name |-> "initialize_interp", arg |-> <<>>, ret |-> r.ret]
  /\ frames' = SetTop([Top EXCEPT !.phase = "ready"])
  /\ UNCHANGED <<journal, state, steps, driver>>

\* the interpreter is about to execute instruction ins
Step(ins) ==
  /\ frames # <<>> /\ Top.phase = "ready"
  /\ Len(steps) < MaxSteps
  /\ LET f == [Top EXCEPT !.ins = ins, !.phase = "stepped"]
         r == step(tracer, f, Data)
     IN /\ tracer' = r.self
        /\ lastcb' = [name |-> "step", arg |-> <<>>, ret |-> r.ret]
        /\ frames' = SetTop(f)
        /\ steps' = Append(steps,
             [pc |-> f.pc, op |-> ins.op, gas |-> f.gas, mem_size |-> Len(f.memory),
              depth |-> Len(frames), address |-> f.address, stack |-> f.stack,
              memory |-> f.memory, cost |-> -1,
              touched |-> IF ins.op \in {SLOAD, SSTORE} THEN ins.k ELSE 0,
              done |-> FALSE])
  /\ UNCHANGED <<journal, state, driver>>

\* the opcode has executed (or the frame it opened has returned)
StepEnd ==
  /\ frames # <<>>
  /\ \/ Top.phase = "stepped" /\ ~OpensFrame(Top)
     \/ Top.phase = "returned"
  /\ LET x == IF Top.phase = "stepped" THEN Execute(Top, journal, state)
              ELSE [interp |-> [Top EXCEPT !.pc = @ + 1],
                    js |-> [journal |-> journal, state |-> state], eval |-> "Continue"]
         data == [depth |-> Len(frames), journal |-> x.js.journal, state |-> x.js.state]
         r == step_end(tracer, x.interp, data, x.eval)
     IN /\ tracer' = r.self
        /\ lastcb' = [name |-> "step_end", arg |-> <<>>, ret |-> r.ret]
        /\ journal' = x.js.journal
        /\ state' = x.js.state
        /\ frames' = SetTop([x.interp EXCEPT
                               !.phase = IF x.eval = "Continue" THEN "ready" ELSE "done",
                               !.result = ResultOf(x.eval)])
        /\ steps' = IF Top.phase = "stepped"
                    THEN [steps EXCEPT ![Len(steps)].cost = Top.gas - x.interp.gas,
                                       ![Len(steps)].done = x.eval = "Continue"]
                    ELSE steps
  /\ UNCHANGED driver

\* the frame a call or create opens: none past MaxDepth, an already finished one for
\* a callee without code
Callee(f, gas) ==
  IF Len(frames) >= MaxDepth
  THEN [frame |-> NewFrame(f.ins.a, gas, f.is_static, "done", "revert", Len(journal)),
        journal |-> journal]
  ELSE [frame |-> NewFrame(f.ins.a, gas, f.is_static \/ f.ins.op = STATICCALL,
                           IF f.ins.enter THEN "init" ELSE "done",
                           IF f.ins.enter THEN "" ELSE "ok", Len(journal)),
        journal |-> checkpoint(journal)]

\* the caller's frame once the call or create opcode has paid and handed gas on
Caller(f) ==
  [f EXCEPT !.gas = (f.gas - Cost(f.ins.op)) - ForwardedGas(f.gas - Cost(f.ins.op)),
            !.phase = "called"]

\* the position of inspect_ref: before the transaction's call, inside it, after it
DriverIdle == [pos |-> "inspect_ref"]
DriverRunning == [pos |-> "frames"]
DriverInspected == [pos |-> "inspected"]

\* the call that is the transaction itself, issued at depth 0 before the
\* checkpoint of the top frame; enter = FALSE: the called account has no code
TxCall ==
  /\ frames = <<>> /\ driver = DriverIdle
  /\ \E enter \in BOOLEAN :
       LET r == call(tracer, Data, [NoIns EXCEPT !.a = TxTo, !.enter = enter])
       IN /\ tracer' = r.self
          /\ lastcb' = [name |-> "call", arg |-> <<>>, ret |-> r.ret]
          /\ frames' = <<NewFrame(TxTo, TxGasLimit, FALSE,
                                  IF enter THEN "init" ELSE "done",
                                  IF enter THEN "" ELSE "ok", Len(journal))>>
          /\ journal' = checkpoint(journal)
          /\ driver' = DriverRunning
  /\ UNCHANGED <<state, steps>>

\* the call a CALL or STATICCALL opcode of the traced code makes
OpCall ==
  /\ frames # <<>> /\ Top.phase = "stepped"
  /\ IsCallOp(Top.ins.op) /\ OpensFrame(Top)
  /\ LET f == Caller(Top)
         r == call(tracer, Data, Top.ins)
         c == Callee(Top, ForwardedGas(Top.gas - Cost(Top.ins.op)))
     IN /\ tracer' = r.self
        /\ lastcb' = [name |-> "call", arg |-> <<>>, ret |-> r.ret]
        /\ frames' = Append(SetTop(f), c.frame)
        /\ journal' = c.journal
        /\ steps' = [steps EXCEPT ![Len(steps)].cost = Top.gas - f.gas,
                                  ![Len(steps)].done = TRUE]
  /\ UNCHANGED <<state, driver>>

Call ==
  \/ TxCall
  \/ OpCall

Create ==
  /\ frames # <<>> /\ Top.phase = "stepped"
  /\ IsCreateOp(Top.ins.op) /\ OpensFrame(Top)
  /\ LET f == Caller(Top)
         r == create(tracer, Data, Top.ins)
         c == Callee(Top, ForwardedGas(Top.gas - Cost(Top.ins.op)))
     IN /\ tracer' = r.self
        /\ lastcb' = [name |-> "create", arg |-> <<>>, ret |-> r.ret]
        /\ frames' = Append(SetTop(f), c.frame)
        /\ journal' = c.journal
        /\ steps' = [steps EXCEPT ![Len(steps)].cost = Top.gas - f.gas,
                                  ![Len(steps)].done = TRUE]
  /\ UNCHANGED <<state, driver>>

\* the journal and state once the finished innermost frame is committed or reverted,
\* and the caller with the unused gas handed back
Returned ==
  LET callee == Top
      caller == frames[Len(frames) - 1]
      js == IF callee.result = "ok" THEN [journal |-> journal, state |-> state]
            ELSE checkpoint_revert(journal, state, callee.checkpoint)
      back == IF callee.result = "halt" THEN 0 ELSE callee.gas
  IN [js |-> js,
      remaining_gas |-> back,
      ret |-> callee.result,
      frames |-> Append(SubSeq(frames, 1, Len(frames) - 2),
                        [caller EXCEPT !.gas = @ + back, !.phase = "returned"])]

\* the transaction's own frame has ended: it is committed or reverted, and call_end
\* is issued at depth 0
TxCallEnd ==
  /\ Len(frames) = 1 /\ Top.phase = "done" /\ driver = DriverRunning
  /\ LET js == IF Top.result = "ok" THEN [journal |-> journal, state |-> state]
               ELSE checkpoint_revert(journal, state, Top.checkpoint)
         back == IF Top.result = "halt" THEN 0 ELSE Top.gas
         data == [depth |-> 0, journal |-> js.journal, state |-> js.state]
         r == call_end(tracer, data, [NoIns EXCEPT !.a = TxTo], back, Top.result, <<>>)
     IN /\ tracer' = r.self
        /\ lastcb' = [name |-> "call_end", arg |-> <<Top.result, back, <<>> >>,
                      ret |-> r.ret]
        /\ frames' = <<>>
        /\ journal' = js.journal
        /\ state' = js.state
        /\ driver' = DriverInspected
  /\ UNCHANGED steps

OpCallEnd ==
  /\ Len(frames) >= 2 /\ Top.phase = "done"
  /\ IsCallOp(frames[Len(frames) - 1].ins.op)
  /\ LET x == Returned
         data == [depth |-> Len(frames) - 1, journal |-> x.js.journal, state |-> x.js.state]
         r == call_end(tracer, data, frames[Len(frames) - 1].ins,
                       x.remaining_gas, x.ret, <<>>)
     IN /\ tracer' = r.self
        /\ lastcb' = [name |-> "call_end", arg |-> <<x.ret, x.remaining_gas, <<>> >>,
                      ret |-> r.ret]
        /\ frames' = x.frames
        /\ journal' = x.js.journal
        /\ state' = x.js.state
  /\ UNCHANGED <<steps, driver>>

CallEnd ==
  \/ TxCallEnd
  \/ OpCallEnd

CreateEnd ==
  /\ Len(frames) >= 2 /\ Top.phase = "done"
  /\ IsCreateOp(frames[Len(frames) - 1].ins.op)
  /\ LET x == Returned
         data == [depth |-> Len(frames) - 1, journal |-> x.js.journal, state |-> x.js.state]
         r == create_end(tracer, data, frames[Len(frames) - 1].ins, x.ret,
                         IF x.ret = "ok" THEN Some(CreatedAddress) ELSE None,
                         x.remaining_gas, <<>>)
     IN /\ tracer' = r.self
        /\ lastcb' = [name |-> "create_end",
                      arg |-> <<x.ret, IF x.ret = "ok" THEN Some(CreatedAddress) ELSE None,
                                x.remaining_gas, <<>> >>,
                      ret |-> r.ret]
        /\ frames' = x.frames
        /\ journal' = x.js.journal
        /\ state' = x.js.state
  /\ UNCHANGED <<steps, driver>>

\* the traced transaction has run to its result: inspect_ref returns
Finished == driver = DriverInspected

(***************************************************************************)
(* The traced run: the state when inspect_ref starts, and its behaviours.  *)
(***************************************************************************)
\* slots warmed before execution (an access list), with no journal entry
ColdState == [a \in Addresses |-> [k \in Keys |-> [present |-> DbValue(a, k), warm |-> FALSE]]]
Prewarmed(slots) ==
  [a \in Addresses |-> [k \in Keys |->
     [present |-> DbValue(a, k), warm |-> <<a, k>> \in slots]]]

TraceStart(configs, prewarm) ==
  /\ \E c \in configs : tracer = new(c)
  /\ frames = <<>>
  /\ journal = <<<<OtherEntry>>>>
  /\ \E slots \in prewarm : state = Prewarmed(slots)
  /\ steps = <<>>
  /\ lastcb = [name |-> "new", arg |-> <<>>, ret |-> <<>>]
  /\ driver = DriverIdle

Init == TraceStart(DebugTraceConfigs, {{}})

Next ==
  \/ InitializeInterp
  \/ \E ins \in TraceInstrs : Step(ins)
  \/ StepEnd
  \/ Call
  \/ CallEnd
  \/ Create
  \/ CreateEnd

Spec == Init /\ [][Next]_vars

\* the traced run of code that reads and writes storage
StorageConfigs == {c \in DebugTraceConfigs : c.disable_memory /\ c.disable_stack}

InitStorage == TraceStart(StorageConfigs, {{}, {<<TxTo, 1>>}})

NextStorage ==
  \/ InitializeInterp
  \/ \E ins \in StorageInstrs : Step(ins)
  \/ StepEnd
  \/ Call
  \/ CallEnd

SpecStorage == InitStorage /\ [][NextStorage]_vars

\* the traced run of code that pushes words and stores one
WordConfigs == {c \in DebugTraceConfigs :
                  c.disable_memory /\ ~c.disable_stack /\ ~c.disable_storage}

InitWords == TraceStart(WordConfigs, {{}})

NextWords ==
  \/ InitializeInterp
  \/ \E ins \in WordInstrs : Step(ins)
  \/ StepEnd
  \/ TxCall
  \/ TxCallEnd

SpecWords == InitWords /\ [][NextWords]_vars

TypeOK ==
  /\ Len(frames) <= MaxDepth + 1
  /\ Len(steps) <= MaxSteps
  /\ \A i \in 1..Len(frames) : frames[i].gas >= 0

(***************************************************************************)
(* The replay driver, debug_trace_transaction.                             *)
(***************************************************************************)
\* SpecId is ordered by its discriminant
SPURIOUS_DRAGON == 5
MERGE == 15
SpecIds == {SPURIOUS_DRAGON - 1, SPURIOUS_DRAGON, MERGE - 1, MERGE, MERGE + 1}

Hashes == {"h1", "h2"}
TargetHashes == Hashes \cup {"h3"}
BlockNumbers == {7, 8}
TraceConfigs == {c \in DebugTraceConfigs :
                   c.disable_stack = c.disable_memory /\ c.disable_memory = c.disable_storage}
RECURSIVE SeqsUpTo(_, _)
SeqsUpTo(S, n) ==
  IF n = 0 THEN {<<>>}
  ELSE SeqsUpTo(S, n - 1) \cup {Append(q, x) : q \in {r \in SeqsUpTo(S, n - 1) : Len(r) = n - 1}, x \in S}

\* what a VM run of one transaction yields: an ExecutionResult, or an error
GasUseds == {21000, 21004}
Outputs == {<<>>, <<18, 52>>}
ExecutionResults ==
  [kind : {"Success", "Revert"}, gas_used : GasUseds, output : Outputs]
    \cup [kind : {"Halt"}, gas_used : GasUseds, output : {<<>>}]
ReplayResults == {r \in ExecutionResults : r.gas_used = 21000 /\ r.output = <<>>}
VmError == [kind |-> "Error", gas_used |-> 0, output |-> <<>>]

\* the logs a traced run can leave in the tracer: those of a transaction to an
\* account without code, and those of one whose code is a single STOP
TracedLogs(config) ==
  LET inputs == [NoIns EXCEPT !.a = TxTo]
      data0 == [depth |-> 0, journal |-> <<<<OtherEntry>>>>, state |-> ColdState]
      data1 == [depth |-> 1, journal |-> checkpoint(data0.journal), state |-> ColdState]
      f0 == NewFrame(TxTo, TxGasLimit, FALSE, "init", "", 1)
      f1 == [f0 EXCEPT !.ins = Ins(STOP)]
      t1 == call(new(config), data0, inputs).self
      t2 == initialize_interp(t1, f0, data1).self
      t3 == step(t2, f1, data1).self
      t4 == step_end(t3, f1, data1, "Stop").self
      no_code == call_end(t1, data0, inputs, TxGasLimit, "ok", <<>>).self
      one_stop == call_end(t4, data0, inputs, TxGasLimit, "ok", <<>>).self
  IN {no_code.logs, one_stop.logs}

\* the check against the fork before Spurious Dragon
invalid_spec_id_wrong_fork(spec_id) == spec_id < SPURIOUS_DRAGON - 1

\* lines 33-38: the spec id is too old for debug_traceTransaction
invalid_spec_id(spec_id) == spec_id < SPURIOUS_DRAGON

\* lines 40-42: the fork needs a prevrandao and the block has none
missing_prevrandao(spec_id, prevrandao) == spec_id > MERGE /\ prevrandao = None

\* the result, but a revert is given no output
debug_result_revert_no_output(execution_result, logs) ==
  CASE execution_result.kind = "Success" ->
         [pass |-> TRUE, gas_used |-> execution_result.gas_used,
          output |-> Some(execution_result.output), logs |-> logs]
    [] OTHER ->
         [pass |-> FALSE, gas_used |-> execution_result.gas_used,
          output |-> None, logs |-> logs]

\* lines 60-81: the DebugTraceResult of an ExecutionResult and the tracer's logs
debug_result(execution_result, logs) ==
  CASE execution_result.kind = "Success" ->
         [pass |-> TRUE, gas_used |-> execution_result.gas_used,
          output |-> Some(execution_result.output), logs |-> logs]
    [] execution_result.kind = "Revert" ->
         [pass |-> FALSE, gas_used |-> execution_result.gas_used,
          output |-> Some(execution_result.output), logs |-> logs]
    [] execution_result.kind = "Halt" ->
         [pass |-> FALSE, gas_used |-> execution_result.gas_used,
          output |-> None, logs |-> logs]

Ok(v) == [tag |-> "Ok", value |-> v]
Err(kind, info) == [tag |-> "Err", value |-> [error |-> kind, info |-> info]]
NoResult == [tag |-> "", value |-> <<>>]

DriverStart(spec_id, prevrandao, block_number, trace_config, transactions, transaction_hash) ==
  [pos |-> "spec_id",
   spec_id |-> spec_id, prevrandao |-> prevrandao, block_number |-> block_number,
   trace_config |-> trace_config, transactions |-> transactions,
   transaction_hash |-> transaction_hash,
   i |-> 1,            \* the position of the for loop in transactions
   built |-> 0,        \* the calls of build_evm so far
   executed |-> <<>>,  \* the VM runs so far
   committed |-> <<>>, \* the transactions whose changes state.commit has applied
   tracer |-> None,
   result |-> NoResult]

Returns(d, result) == [d EXCEPT !.pos = "returned", !.result = result]

\* if evm_config.spec_id < SpecId::SPURIOUS_DRAGON { return Err(InvalidSpecId) }
CheckSpecId ==
  /\ driver.pos = "spec_id"
  /\ driver' = IF invalid_spec_id(driver.spec_id)
               THEN Returns(driver, Err("InvalidSpecId", <<driver.spec_id>>))
               ELSE [driver EXCEPT !.pos = "prevrandao"]
  /\ UNCHANGED <<tracer, frames, journal, state, steps, lastcb>>

\* if spec_id > MERGE && prevrandao.is_none() { return Err(MissingPrevrandao) }
CheckPrevrandao ==
  /\ driver.pos = "prevrandao"
  /\ driver' = IF missing_prevrandao(driver.spec_id, driver.prevrandao)
               THEN Returns(driver, Err("TransactionError", <<"MissingPrevrandao">>))
               ELSE [driver EXCEPT !.pos = "loop"]
  /\ UNCHANGED <<tracer, frames, journal, state, steps, lastcb>>

\* lines 46-83: build the VM, attach a fresh tracer, run, and return the result
trace_target(d, r, logs) ==
  LET d1 == [d EXCEPT
               !.built = @ + 1,
               !.tracer = Some([new(d.trace_config) EXCEPT !.logs = logs]),
               !.executed = Append(@, [tx |-> d.i, inspect |-> TRUE, result |-> r])]
  IN IF r.kind = "Error"
     THEN Returns(d1, Err("TransactionError", <<"Vm", d.i>>))
     ELSE Returns(d1, Ok(debug_result(r, d1.tracer[1].logs)))

\* replay, but a transaction that did not succeed is not committed
replay_other_commit_success_only(d, r) ==
  LET d1 == [d EXCEPT
               !.built = @ + 1,
               !.executed = Append(@, [tx |-> d.i, inspect |-> FALSE, result |-> r])]
  IN IF r.kind = "Error"
     THEN Returns(d1, Err("TransactionError", <<"Vm", d.i>>))
     ELSE [d1 EXCEPT !.committed = IF r.kind = "Success" THEN Append(@, d.i) ELSE @,
                     !.i = @ + 1]

\* replay, but a VM error is swallowed and the loop goes on
replay_other_ignore_error(d, r) ==
  LET d1 == [d EXCEPT
               !.built = @ + 1,
               !.executed = Append(@, [tx |-> d.i, inspect |-> FALSE, result |-> r])]
  IN IF r.kind = "Error"
     THEN [d1 EXCEPT !.i = @ + 1]
     ELSE [d1 EXCEPT !.committed = Append(@, d.i), !.i = @ + 1]

\* lines 85-94: build the VM, run without inspector, commit the changes
replay_other(d, r) ==
  LET d1 == [d EXCEPT
               !.built = @ + 1,
               !.executed = Append(@, [tx |-> d.i, inspect |-> FALSE, result |-> r])]
  IN IF r.kind = "Error"
     THEN Returns(d1, Err("TransactionError", <<"Vm", d.i>>))
     ELSE [d1 EXCEPT !.committed = Append(@, d.i), !.i = @ + 1]

\* the for loop has run out of transactions, but the last one is never looked at
loop_is_over_early(d) == d.i >= Len(d.transactions)

\* for transaction in transactions: nothing is left
loop_is_over(d) == d.i > Len(d.transactions)

\* one turn of the loop for the transaction with the wanted hash: a traced run
TraceTarget ==
  /\ driver.pos = "loop"
  /\ ~loop_is_over(driver)
  /\ driver.transactions[driver.i] = driver.transaction_hash
  /\ \E r \in ExecutionResults \cup {VmError}, logs \in TracedLogs(driver.trace_config) :
       driver' = trace_target(driver, r, logs)
  /\ UNCHANGED <<tracer, frames, journal, state, steps, lastcb>>

\* one turn of the loop for any other transaction: run it and commit its changes
ReplayOther ==
  /\ driver.pos = "loop"
  /\ ~loop_is_over(driver)
  /\ driver.transactions[driver.i] # driver.transaction_hash
  /\ \E r \in ReplayResults \cup {VmError} :
       driver' = replay_other(driver, r)
  /\ UNCHANGED <<tracer, frames, journal, state, steps, lastcb>>

\* the loop is over and no transaction had the hash
HashNotFound ==
  /\ driver.pos = "loop"
  /\ loop_is_over(driver)
  /\ driver' = Returns(driver, Err("InvalidTransactionHash",
                                   <<driver.transaction_hash, driver.block_number>>))
  /\ UNCHANGED <<tracer, frames, journal, state, steps, lastcb>>

InitDriver ==
  /\ \E spec_id \in SpecIds, prevrandao \in {None, Some(1)}, block_number \in BlockNumbers,
        trace_config \in TraceConfigs, transactions \in SeqsUpTo(Hashes, MaxTxs),
        transaction_hash \in TargetHashes :
       driver = DriverStart(spec_id, prevrandao, block_number, trace_config,
                            transactions, transaction_hash)
  /\ tracer = new([disable_storage |-> FALSE, disable_memory |-> FALSE, disable_stack |-> FALSE])
  /\ frames = <<>>
  /\ journal = <<>>
  /\ state = ColdState
  /\ steps = <<>>
  /\ lastcb = [name |-> "new", arg |-> <<>>, ret |-> <<>>]

NextDriver ==
  \/ CheckSpecId
  \/ CheckPrevrandao
  \/ TraceTarget
  \/ ReplayOther
  \/ HashNotFound

SpecDriver == InitDriver /\ [][NextDriver]_vars

(***************************************************************************)
(* Properties of the traced run.                                           *)
(***************************************************************************)
Logs == tracer.logs
\* the records after the one made in the transaction's own call
OpLogs == SubSeq(Logs, 2, Len(Logs))
GasHex(n) == "0x" \o LowerHex(n)

\* C1: when the traced transaction has run to its result, logs holds as many records
\* as opcodes were executed (as step callbacks were issued): a call or create opcode,
\* recorded in call/create and skipped in its own step_end, counts once, whether the
\* frame it opened ran opcodes or none.
C1_LogsCountSteps == Finished => Len(Logs) = Len(steps)

\* C2: the k-th record carries the pc, opcode, remaining gas and memory size the
\* interpreter held at the k-th step callback, for every k: records are in execution
\* order, the record made in call/create is the calling opcode's and comes before the
\* callee's records, and the record after a return is the next opcode's.
C2_RecordsFollowSteps ==
  /\ Len(Logs) <= Len(steps)
  /\ \A k \in 1..Len(Logs) :
       /\ Logs[k].pc = steps[k].pc
       /\ Logs[k].op = steps[k].op
       /\ Logs[k].gas = GasHex(steps[k].gas)
       /\ Logs[k].mem_size = steps[k].mem_size

\* C9: every record of an opcode other than STATICCALL has as gas_cost the gas that
\* opcode deducted, the records made in call/create for CALL and CREATE included.
C9_GasCostIsOwnCost ==
  \A k \in 1..Len(OpLogs) :
    (k <= Len(steps) /\ OpLogs[k].op # STATICCALL /\ steps[k].cost >= 0)
      => OpLogs[k].gas_cost = GasHex(steps[k].cost)

\* C10: the record made in step_end for an SLOAD or SSTORE that executed, with
\* storage capture enabled, maps the slot key the opcode touched to the present
\* value of that slot of the executing contract.
C10_TouchedSlotRecorded ==
  ( /\ lastcb.name = "step_end"
    /\ ~tracer.config.disable_storage
    /\ steps # <<>>
    /\ Last(steps).op \in {SLOAD, SSTORE}
    /\ Last(steps).done
    /\ Len(OpLogs) = Len(steps) )
  => /\ Last(Logs).storage # None
     /\ to_hex_word(Last(steps).touched) \in DOMAIN Last(Logs).storage[1]
     /\ Last(Logs).storage[1][to_hex_word(Last(steps).touched)]
          = to_hex_word(state[Last(steps).address][Last(steps).touched].present)

\* C11: the storage map of a record of contract A holds only slots that an SLOAD or
\* SSTORE touched while A was the executing contract: no key comes from a journal
\* entry of another address, such as one a nested call that has returned left behind.
C11_OnlyOwnSlots ==
  \A k \in 1..Len(OpLogs) :
    (k <= Len(steps) /\ OpLogs[k].storage # None) =>
      \A key \in DOMAIN OpLogs[k].storage[1] :
        \E j \in 1..k :
          /\ steps[j].address = steps[k].address
          /\ steps[j].op \in {SLOAD, SSTORE}
          /\ to_hex_word(steps[j].touched) = key

\* C12: in every record stack, memory and storage are absent exactly when their
\* disable_ toggle is set and present (possibly empty) otherwise, each toggle on its
\* own; mem_size is the interpreter's memory length at the step, also when memory
\* capture is disabled.
C12_TogglesDecidePresence ==
  \A k \in 1..Len(Logs) :
    /\ (Logs[k].stack = None) <=> tracer.config.disable_stack
    /\ (Logs[k].memory = None) <=> tracer.config.disable_memory
    /\ (Logs[k].storage = None) <=> tracer.config.disable_storage
    /\ Logs[k].mem_size = IF k = 1 THEN 0 ELSE steps[k - 1].mem_size

\* memory capture alone is disabled, and a record made after an MSTORE reports the
\* 32 bytes of memory while its stack and storage are present
C12_Witness ==
  /\ tracer.config.disable_memory
  /\ ~tracer.config.disable_stack /\ ~tracer.config.disable_storage
  /\ \E k \in 1..Len(Logs) :
       /\ Logs[k].mem_size = 32 /\ Logs[k].memory = None
       /\ Logs[k].stack # None /\ Logs[k].storage = Some(EmptyMap)

\* C13: every record of a STATICCALL has gas_cost "0x0", whatever the accumulator's
\* last cost is, whether call made the record or step_end did.
C13_StaticCallCostsZero ==
  \A k \in 1..Len(Logs) : Logs[k].op = STATICCALL => Logs[k].gas_cost = "0x0"

\* a STATICCALL recorded in call right after an opcode whose cost the accumulator holds
C13_Witness ==
  /\ lastcb.name = "call"
  /\ Last(Logs).op = STATICCALL
  /\ tracer.gas_inspector.last_gas_cost > 0

\* C14: a record has an error exactly when its opcode has no mnemonic; the error is
\* then the op_name, "opcode 0x$<opcode in lowercase hex> not defined"; for a defined
\* opcode op_name is the mnemonic and there is no error.
C14_ErrorIffUndefinedOpcode ==
  \A k \in 1..Len(Logs) :
    LET r == Logs[k] IN
    /\ (r.error # None) <=> (OPCODE_JUMPMAP(r.op) = None)
    /\ OPCODE_JUMPMAP(r.op) # None => r.op_name = OPCODE_JUMPMAP(r.op)[1]
    /\ r.error # None => r.error = Some(r.op_name)
    /\ r.op = UNDEFINED_0C => r.op_name = "opcode 0x$c not defined"
    /\ r.op = CALL => r.op_name = "CALL"

\* a callee ran the undefined opcode 0x0c after its caller's defined ones
C14_Witness ==
  /\ Len(Logs) >= 2
  /\ Last(Logs).op = UNDEFINED_0C /\ Last(Logs).error # None /\ Last(Logs).depth = 2
  /\ Logs[1].error = None

\* "0x", 56 zeros, then the eight hex digits of a word below 16^8
WordHex(w) ==
  "0x" \o "00000000000000000000000000000000000000000000000000000000"
    \o HexDigit((w \div 268435456) % 16) \o HexDigit((w \div 16777216) % 16)
    \o HexDigit((w \div 1048576) % 16) \o HexDigit((w \div 65536) % 16)
    \o HexDigit((w \div 4096) % 16) \o HexDigit((w \div 256) % 16)
    \o HexDigit((w \div 16) % 16) \o HexDigit(w % 16)

\* C15: to_hex_word gives every word 66 characters, "0x" and the value as 64
\* lowercase hex digits padded with zeros on the left (zero is "0x" and 64 zeros, one
\* is "0x", 63 zeros and "1"); distinct words give distinct strings; every stack word
\* and every storage key and value of a record has this shape.
C15_HexWordShape ==
  /\ Logs # <<>> => Logs[1].stack = Some(<<>>) /\ Logs[1].storage = Some(EmptyMap)
  /\ \A k \in 1..Len(OpLogs) :
       /\ OpLogs[k].stack # None /\ OpLogs[k].storage # None /\ k <= Len(steps)
       /\ Len(OpLogs[k].stack[1]) = Len(steps[k].stack)
       /\ \A i \in 1..Len(steps[k].stack) :
            LET w == steps[k].stack[i]
                hex == OpLogs[k].stack[1][i]
            IN /\ Len(hex) = 66 /\ hex = WordHex(w)
               /\ w = 0 => hex = "0x0000000000000000000000000000000000000000000000000000000000000000"
               /\ w = 1 => hex = "0x0000000000000000000000000000000000000000000000000000000000000001"
               /\ \A j \in 1..Len(steps[k].stack) :
                    w # steps[k].stack[j] => hex # OpLogs[k].stack[1][j]
       /\ \A key \in DOMAIN OpLogs[k].storage[1] :
            /\ Len(key) = 66 /\ key \in {WordHex(x) : x \in Keys}
            /\ Len(OpLogs[k].storage[1][key]) = 66
            /\ OpLogs[k].storage[1][key] \in {WordHex(x) : x \in Values}

\* a record whose stack holds zero and the largest word, after a slot was stored
C15_Witness ==
  \E k \in 1..Len(Logs) :
    /\ Logs[k].stack = Some(<<to_hex_word(0), to_hex_word(2147483647)>>)
    /\ Logs[k].storage # None /\ Logs[k].storage[1] # EmptyMap

\* C16: skip is false at construction; only call_end and create_end set it; the
\* step_end that finds it set appends no record and clears it; a step_end that finds
\* it clear appends exactly one record; initialize_interp, step, call and create
\* leave it as it is.
C16_SkipOneShot ==
  /\ tracer.skip = FALSE
  /\ [][LET cb == lastcb'.name IN
        /\ cb \in {"call_end", "create_end"} => tracer'.skip
        /\ (tracer'.skip /\ ~tracer.skip) => cb \in {"call_end", "create_end"}
        /\ cb = "step_end" =>
             /\ ~tracer'.skip
             /\ tracer.skip => tracer'.logs = tracer.logs
             /\ ~tracer.skip => Len(tracer'.logs) = Len(tracer.logs) + 1
        /\ cb \in {"initialize_interp", "step", "call", "create"} =>
             tracer'.skip = tracer.skip]_vars

\* a call has returned, its step_end was skipped, and the caller's next opcode was
\* recorded by its step_end
C16_Witness ==
  /\ lastcb.name = "step_end" /\ ~tracer.skip
  /\ Len(OpLogs) = Len(steps)
  /\ \E k \in 1..(Len(OpLogs) - 1) :
       /\ IsCallOp(OpLogs[k].op) /\ steps[k].done
       /\ Last(Logs).depth = OpLogs[k].depth

\* C17 as stated: every callback returns a continue verdict, call_end and create_end
\* included when the frame's result handed to them is a revert or a halt.
C17_AlwaysContinue ==
  lastcb.name # "new" => lastcb.ret[1] = "Continue"

\* C17 as amended: initialize_interp, step, step_end, call and create return a
\* continue verdict for every input; call_end and create_end return the frame's
\* result, gas and output (and address) exactly as handed to them, a revert or a
\* halt included, so the inspector never changes the outcome of execution.
C17_ContinueOrPassThrough ==
  /\ lastcb.name \in {"initialize_interp", "step", "step_end", "call", "create"} =>
       lastcb.ret[1] = "Continue"
  /\ lastcb.name \in {"call_end", "create_end"} => lastcb.ret = lastcb.arg

\* call_end was handed the result of a nested frame that reverted or halted
C17_Witness ==
  /\ lastcb.name = "call_end" /\ frames # <<>>
  /\ lastcb.arg[1] \in {"revert", "halt"}
  /\ lastcb.ret[1] = lastcb.arg[1]

\* C18: the tracer's storage maps change only where a record is made, with storage
\* capture enabled, the snapshotted opcode SLOAD or SSTORE and a storage change as
\* last entry of the journal's last frame; then one key of the current contract's
\* map is inserted or overwritten and nothing else changes; no key is ever removed.
C18_StorageGrowsInRecordLog ==
  [][LET cb == lastcb'.name
         ca == tracer'.contract_address
         before == MapGetOrDefault(tracer.storage, ca, EmptyMap)
         recorded == Len(tracer'.logs) = Len(tracer.logs) + 1
         applies == /\ ~tracer.config.disable_storage
                    /\ tracer.opcode \in {SLOAD, SSTORE}
                    /\ Last(journal') # <<>>
                    /\ Last(Last(journal')).type = "StorageChange"
     IN /\ DOMAIN tracer.storage \subseteq DOMAIN tracer'.storage
        /\ \A a \in DOMAIN tracer.storage :
             DOMAIN tracer.storage[a] \subseteq DOMAIN tracer'.storage[a]
        /\ tracer'.storage # tracer.storage =>
             /\ cb \in {"step_end", "call", "create"} /\ recorded /\ applies
             /\ \A a \in DOMAIN tracer'.storage \ {ca} :
                  a \in DOMAIN tracer.storage /\ tracer'.storage[a] = tracer.storage[a]
             /\ \E key \in DOMAIN tracer'.storage[ca] :
                  \A other \in DOMAIN tracer'.storage[ca] \ {key} :
                    other \in DOMAIN before /\ tracer'.storage[ca][other] = before[other]
        /\ (cb = "step_end" /\ recorded /\ applies) =>
             LET e == Last(Last(journal'))
             IN /\ ca \in DOMAIN tracer'.storage
                /\ to_hex_word(e.key) \in DOMAIN tracer'.storage[ca]
                /\ tracer'.storage[ca][to_hex_word(e.key)]
                     = to_hex_word(state'[e.address][e.key].present)]_vars

\* one contract's map has grown to two keys, one of them overwritten with a new value
C18_Witness ==
  \E a \in DOMAIN tracer.storage :
    /\ Cardinality(DOMAIN tracer.storage[a]) = 2
    /\ \E key \in DOMAIN tracer.storage[a] : tracer.storage[a][key] = to_hex_word(1)

\* C19: logs only grows at its end: initialize_interp, step, call_end and create_end
\* leave it unchanged, step_end appends no record or one, call and create append
\* exactly one, and the records already there stay as they are, in their order.
C19_LogsAppendOnly ==
  [][LET cb == lastcb'.name
         n == Len(tracer.logs)
     IN /\ Len(tracer'.logs) >= n
        /\ SubSeq(tracer'.logs, 1, n) = tracer.logs
        /\ cb \in {"initialize_interp", "step", "call_end", "create_end"} =>
             tracer'.logs = tracer.logs
        /\ cb = "step_end" => Len(tracer'.logs) \in {n, n + 1}
        /\ cb \in {"call", "create"} => Len(tracer'.logs) = n + 1]_vars

\* records were made by step_end, call and create, and create_end has just returned
C19_Witness ==
  /\ lastcb.name = "create_end"
  /\ Len(Logs) >= 3
  /\ \E k \in 1..Len(OpLogs) : IsCallOp(OpLogs[k].op) /\ steps[k].done

\* C20: the depth of a record is the call depth of the frame that executes its
\* opcode: 1 in the top frame and one more per nesting level; the record made in
\* call/create has the depth of the calling frame, the records of the frame it
\* opens that depth plus one.
C20_DepthOfExecutingFrame ==
  /\ \A k \in 1..Len(Logs) : Logs[k].depth >= 1
  /\ \A k \in 1..Len(OpLogs) :
       /\ k <= Len(steps) /\ OpLogs[k].depth = steps[k].depth
       /\ (k > 1 /\ OpLogs[k].depth > OpLogs[k - 1].depth) =>
            /\ OpLogs[k].depth = OpLogs[k - 1].depth + 1
            /\ IsCallOp(OpLogs[k - 1].op) \/ IsCreateOp(OpLogs[k - 1].op)

\* C21: whenever a record is emitted with storage capture enabled, every key of its
\* storage map is a slot of the executing contract and its value is that slot's
\* present value in the journaled state at that moment, also after a nested frame
\* that wrote the slot has reverted and after the same address has re-entered.
C21_StorageShowsPresentValues ==
  [][(Len(tracer'.logs) = Len(tracer.logs) + 1 /\ Last(tracer'.logs).storage # None) =>
       LET storage == Last(tracer'.logs).storage[1]
           slots == state'[tracer'.contract_address]
       IN \A key \in DOMAIN storage :
            \E k \in Keys :
              /\ to_hex_word(k) = key
              /\ storage[key] = to_hex_word(slots[k].present)]_vars

(***************************************************************************)
(* Properties of the replay driver.                                        *)
(***************************************************************************)
\* the position of the first transaction with the wanted hash, 0 when there is none
FirstTarget ==
  LET at == {i \in 1..Len(driver.transactions) :
               driver.transactions[i] = driver.transaction_hash}
  IN IF at = {} THEN 0 ELSE CHOOSE i \in at : \A j \in at : i <= j

UpTo(n) == [i \in 1..n |-> i]
ExecutedTxs == [j \in 1..Len(driver.executed) |-> driver.executed[j].tx]
DriverReturned == driver.pos = "returned"
TargetRan == \E j \in 1..Len(driver.executed) : driver.executed[j].inspect
\* the preconditions as the specification states them
PreconditionsHold ==
  /\ driver.spec_id >= SPURIOUS_DRAGON
  /\ driver.spec_id >= MERGE => driver.prevrandao # None
NoVmError == \A j \in 1..Len(driver.executed) : driver.executed[j].result.kind # "Error"

\* C3: when the list holds the wanted hash, the transactions run are those before the
\* first one with that hash, in list order and once each, and each is committed
\* whatever its result was (success, revert or halt); the target then runs with a
\* fresh tracer, is not committed, and nothing after it is run.
C3_ReplayThenTrace ==
  FirstTarget > 0 =>
    /\ Len(driver.executed) <= FirstTarget
    /\ ExecutedTxs = UpTo(Len(driver.executed))
    /\ \A j \in 1..Len(driver.executed) :
         driver.executed[j].inspect <=> driver.executed[j].tx = FirstTarget
    /\ \A j \in 1..Len(driver.committed) :
         driver.committed[j] = j /\ j < FirstTarget
    /\ driver.result.tag = "Ok" => TargetRan
    /\ TargetRan =>
         /\ DriverReturned
         /\ driver.committed = UpTo(FirstTarget - 1)
         /\ driver.built = FirstTarget
         /\ driver.tracer # None
         /\ [driver.tracer[1] EXCEPT !.logs = <<>>] = new(driver.trace_config)

\* the target is second of three: the one before it reverted or halted, and was committed
C3_Witness ==
  /\ DriverReturned /\ driver.result.tag = "Ok"
  /\ FirstTarget = 2 /\ Len(driver.transactions) = 3
  /\ driver.executed[1].result.kind \in {"Revert", "Halt"}
  /\ driver.committed = <<1>>

\* C4: with a spec id at or past the Merge, the Merge itself included, and no
\* prevrandao, the driver fails with MissingPrevrandao and no transaction is run.
C4_MergeNeedsPrevrandao ==
  (driver.spec_id >= MERGE /\ driver.prevrandao = None) =>
    /\ driver.built = 0 /\ driver.executed = <<>> /\ driver.committed = <<>>
    /\ driver.pos \in {"spec_id", "prevrandao", "returned"}
    /\ DriverReturned => driver.result = Err("TransactionError", <<"MissingPrevrandao">>)

\* C5: with a spec id before Spurious Dragon the driver fails with InvalidSpecId
\* carrying the spec id, first of all: no VM is built, nothing is run or committed,
\* whatever the list, the hash and the prevrandao are.
C5_OldSpecIdRejected ==
  driver.spec_id < SPURIOUS_DRAGON =>
    /\ driver.built = 0 /\ driver.executed = <<>> /\ driver.committed = <<>>
    /\ driver.tracer = None
    /\ driver.pos \in {"spec_id", "returned"}
    /\ DriverReturned => driver.result = Err("InvalidSpecId", <<driver.spec_id>>)

\* rejected although the hash is absent from a non-empty list and prevrandao is missing
C5_Witness ==
  /\ DriverReturned /\ driver.spec_id < SPURIOUS_DRAGON
  /\ driver.result.tag = "Err" /\ driver.result.value.error = "InvalidSpecId"
  /\ driver.prevrandao = None /\ FirstTarget = 0 /\ driver.transactions # <<>>

\* C6: when the preconditions hold, no transaction has the wanted hash and no VM run
\* fails, the driver returns InvalidTransactionHash with the hash and the block number,
\* after it has run and committed every transaction in order; it never returns Ok.
C6_HashNotFound ==
  (PreconditionsHold /\ FirstTarget = 0 /\ NoVmError) =>
    /\ driver.result.tag # "Ok" /\ driver.tracer = None
    /\ DriverReturned =>
         /\ driver.result = Err("InvalidTransactionHash",
                                <<driver.transaction_hash, driver.block_number>>)
         /\ ExecutedTxs = UpTo(Len(driver.transactions))
         /\ driver.committed = UpTo(Len(driver.transactions))

\* three transactions, none the wanted one, one of them reverted: all were committed
C6_Witness ==
  /\ DriverReturned /\ PreconditionsHold /\ FirstTarget = 0 /\ NoVmError
  /\ Len(driver.transactions) = 3 /\ Len(driver.committed) = 3
  /\ \E j \in 1..3 : driver.executed[j].result.kind = "Revert"

\* C7: when the VM runs the target to a result, the driver returns Ok with pass true
\* exactly for Success, the output bytes for Success and Revert and none for Halt,
\* the VM's gas_used, and the tracer's logs.
C7_ResultMapping ==
  \A j \in 1..Len(driver.executed) :
    LET e == driver.executed[j] IN
    (e.inspect /\ e.result.kind # "Error") =>
      /\ DriverReturned /\ driver.result.tag = "Ok"
      /\ driver.result.value.pass = (e.result.kind = "Success")
      /\ driver.result.value.output =
           (IF e.result.kind = "Halt" THEN None ELSE Some(e.result.output))
      /\ driver.result.value.gas_used = e.result.gas_used
      /\ driver.result.value.logs = driver.tracer[1].logs

\* a revert with output bytes and a non-empty log is returned as Ok, pass = FALSE
C7_Witness ==
  /\ DriverReturned /\ TargetRan
  /\ Last(driver.executed).result.kind = "Revert"
  /\ Last(driver.executed).result.output # <<>>
  /\ driver.result.tag = "Ok" /\ Len(driver.result.value.logs) = 2

\* C8: a VM error, in a replayed transaction or in the target, ends the driver at
\* once with a TransactionError: the failing transaction is the last one run, it is
\* not committed, and no result with logs is returned.
C8_VmErrorAborts ==
  \A j \in 1..Len(driver.executed) :
    driver.executed[j].result.kind = "Error" =>
      /\ j = Len(driver.executed)
      /\ DriverReturned
      /\ driver.result = Err("TransactionError", <<"Vm", driver.executed[j].tx>>)
      /\ driver.committed = UpTo(driver.executed[j].tx - 1)
      /\ driver.i = driver.executed[j].tx

\* the second of three transactions fails in replay, the target is still to come
C8_Witness ==
  /\ DriverReturned /\ Len(driver.executed) = 2
  /\ driver.executed[2].result.kind = "Error" /\ ~driver.executed[2].inspect
  /\ FirstTarget = 3
  /\ driver.committed = <<1>>

====
